---- MODULE Spec2Model ----
(***************************************************************************)
(* FlashcardDB (src/main.py): a persistent document store kept in step     *)
(* with five in-memory views (ordered list, card index, category index,    *)
(* practice queue, review stack).  A node is identified by the id the      *)
(* store assigned to it; every view holds node references (ids) and the    *)
(* node fields live in one shared record per node.                         *)
(***************************************************************************)
EXTENDS Integers, Sequences, FiniteSets, TLC

VARIABLES
    collection,      \* the store: id -> document (self.collection)
    linked_list,     \* ordered card list: sequence of node ids
    node,            \* fields of every node some view still references
    node_index,      \* keys of self._node_index
    practice_queue,  \* self.practice_queue (deque), head first
    stack,           \* self.review_history.stack, top last
    categories,      \* category_manager: category name -> bucket (sequence)
    nextId,          \* the id the store assigns to the next inserted document
    failures,        \* number of store calls that have raised so far
    due,             \* per card of the index: 1 (enqueue at load/add) + failed
                     \* reviews - times next_card returned it
    last             \* the last call made and what it returned

vars == <<collection, linked_list, node, node_index, practice_queue,
          stack, categories, nextId, failures, due, last>>

views == <<linked_list, node, node_index, practice_queue, stack, categories>>

\* ---- bounds -------------------------------------------------------------
MaxCards == 2
MaxInit == 1
MaxQueue == 2
MaxStack == 2
MaxFailures == 1
MaxLoad == 3

\* ---- input domains ------------------------------------------------------
Ids == 1..MaxCards
QA == {<<"Q1", "A1">>, <<"Q2", "A2">>}
Questions == {qa[1] : qa \in QA}
Answers == {qa[2] : qa \in QA}
Categories == {"Math", "Uncategorized"}
NoField == "<absent>"
NoneCat == "<None>"
NewCats == Categories \cup {NoneCat, ""}

Uncategorized == "Uncategorized"

\* Python truthiness of the new_cat argument (None and "" are falsy).
Truthy(c) == c \notin {NoneCat, ""}

\* ---- sequence helpers ---------------------------------------------------
Range(s) == {s[i] : i \in 1..Len(s)}

Count(s, x) == Cardinality({i \in 1..Len(s) : s[i] = x})

\* deque.remove / list.remove: drops the first occurrence only.
RemoveFirst(s, x) ==
    IF x \notin Range(s) THEN s
    ELSE LET k == CHOOSE i \in 1..Len(s) : s[i] = x /\ \A j \in 1..(i-1) : s[j] # x
         IN  SubSeq(s, 1, k-1) \o SubSeq(s, k+1, Len(s))

RemoveAll(s, x) == SelectSeq(s, LAMBDA y : y # x)

\* ---- LinkedList ---------------------------------------------------------
ListAppend(l, id) == Append(l, id)

ListFind(l, id) == id \in Range(l)

ListRemove(l, id) == RemoveFirst(l, id)

\* ---- CategoryManager ----------------------------------------------------
NoBuckets == [c \in {} |-> <<>>]

add_to_category(cm, cat, id) ==
    IF cat \in DOMAIN cm
    THEN [cm EXCEPT ![cat] = Append(@, id)]
    ELSE [c \in DOMAIN cm \cup {cat} |-> IF c = cat THEN <<id>> ELSE cm[c]]

remove_from_category(cm, cat, id) ==
    IF cat \notin DOMAIN cm THEN cm
    ELSE LET b == RemoveFirst(cm[cat], id)
         IN  IF b = <<>> THEN [c \in DOMAIN cm \ {cat} |-> cm[c]]
             ELSE [cm EXCEPT ![cat] = b]

update_category(cm, old, new, id) ==
    add_to_category(remove_from_category(cm, old, id), new, id)

BucketOf(cm, cat) == IF cat \in DOMAIN cm THEN cm[cat] ELSE <<>>

get_by_category(cat) == BucketOf(categories, cat)

list_categories == DOMAIN categories

\* ---- ReviewHistory ------------------------------------------------------
push(s, id) == Append(s, id)

pop(s) == SubSeq(s, 1, Len(s) - 1)

review_stack_size == Len(stack)

queue_size == Len(practice_queue)

\* ---- persistent store ---------------------------------------------------
Docs == {[question |-> qa[1], answer |-> qa[2], category |-> c] :
            qa \in QA, c \in Categories \cup {NoField}}

insert_one(coll, id, q, a, c) ==
    [i \in DOMAIN coll \cup {id} |->
        IF i = id THEN [question |-> q, answer |-> a, category |-> c] ELSE coll[i]]

\* $set of question, answer and, when new_cat is truthy, category.
update_one(coll, id, q, a, c) ==
    IF id \notin DOMAIN coll THEN coll
    ELSE [coll EXCEPT ![id] = [question |-> q, answer |-> a,
                               category |-> IF Truthy(c) THEN c ELSE @.category]]

delete_one(coll, id) == [i \in DOMAIN coll \ {id} |-> coll[i]]

\* ---- construction: _load_cards_into_memory ------------------------------
\* variant: card_data["category"] read without the default
LoadCategoryRaw(doc) == doc.category

LoadCategory(doc) == IF doc.category = NoField THEN Uncategorized ELSE doc.category

LoadNode(doc) == [question |-> doc.question, answer |-> doc.answer,
                  category |-> LoadCategory(doc)]

RECURSIVE LoadCategories(_, _, _)
LoadCategories(coll, order, cm) ==
    IF order = <<>> THEN cm
    ELSE LoadCategories(coll, Tail(order),
                        add_to_category(cm, LoadCategory(coll[Head(order)]), Head(order)))

Orders(S) == {s \in [1..Cardinality(S) -> S] : \A i, j \in 1..Cardinality(S) : s[i] = s[j] => i = j}

\* The last call: operation, id argument (or id of the returned node), the
\* new_cat / category / correct argument, the card's category before the
\* call (edit_card), the result, and the mutations it made in program order.
NoCall == [op |-> "init", id |-> 0, arg |-> "", was |-> "", ret |-> "None", trace |-> <<>>]

Init ==
    \E k \in 0..MaxInit :
      \E coll \in [1..k -> Docs] :
        \E order \in Orders(1..k) :
          /\ collection = coll
          /\ linked_list = order
          /\ node = [i \in 1..k |-> LoadNode(coll[i])]
          /\ node_index = 1..k
          /\ practice_queue = order
          /\ categories = LoadCategories(coll, order, NoBuckets)
          /\ stack = <<>>
          /\ nextId = k + 1
          /\ failures = 0
          /\ due = [i \in 1..k |-> 1]
          /\ last = NoCall

\* ---- construction as an operation ---------------------------------------
\* The store before FlashcardDB is constructed over it: any documents, the
\* in-memory structures as lines 25-29 create them.
NotConstructed == [NoCall EXCEPT !.op = "new"]

InitStore ==
    \E k \in 0..MaxLoad :
      \E coll \in [1..k -> Docs] :
          /\ collection = coll
          /\ linked_list = <<>>
          /\ node = <<>>
          /\ node_index = {}
          /\ practice_queue = <<>>
          /\ categories = NoBuckets
          /\ stack = <<>>
          /\ nextId = k + 1
          /\ failures = 0
          /\ due = <<>>
          /\ last = NotConstructed

\* __init__ line 32: _load_cards_into_memory over collection.find()
Construct ==
    /\ last.op = "new"
    /\ \E order \in Orders(DOMAIN collection) :
          /\ linked_list' = order
          /\ node' = [i \in DOMAIN collection |-> LoadNode(collection[i])]
          /\ node_index' = DOMAIN collection
          /\ practice_queue' = order
          /\ categories' = LoadCategories(collection, order, NoBuckets)
    /\ due' = [i \in DOMAIN collection |-> 1]
    /\ last' = NoCall
    /\ UNCHANGED <<collection, stack, nextId, failures>>

SpecLoad == InitStore /\ [][Construct]_vars

\* Python frees a node once no view references it: the node record is kept
\* exactly for the ids some view still holds.
Referenced(l, idx, pq, st, cm) ==
    Range(l) \cup idx \cup Range(pq) \cup Range(st)
        \cup UNION {Range(cm[c]) : c \in DOMAIN cm}

Collect(nd, keep) == [i \in DOMAIN nd \cap keep |-> nd[i]]

Call(op, id, arg, ret, trace) ==
    [op |-> op, id |-> id, arg |-> arg, was |-> "", ret |-> ret, trace |-> trace]

CategoryOf(id) == IF id \in DOMAIN node THEN node[id].category ELSE ""

Bool(b) == IF b THEN "True" ELSE "False"

\* the mutation events of one call, in program order; absent ones dropped
Events(evs) == SelectSeq(evs, LAMBDA e : e # "")

Ev(b, name) == IF b THEN name ELSE ""

\* a store call that raises (network error, server rejection)
StoreRaises ==
    /\ failures < MaxFailures
    /\ failures' = failures + 1

\* ---- add_card -----------------------------------------------------------
\* variant: the list append is done before insert_one, so a raising store
\* leaves the new node in the list
AddCardListFirst(q, a, c, fail) ==
    /\ nextId <= MaxCards
    /\ Len(practice_queue) < MaxQueue
    /\ linked_list' = ListAppend(linked_list, nextId)
    /\ node' = [i \in DOMAIN node \cup {nextId} |->
                  IF i = nextId
                  THEN [question |-> q, answer |-> a, category |-> c]
                  ELSE node[i]]
    /\ IF fail
       THEN /\ StoreRaises
            /\ last' = Call("add_card", 0, c, "raised", <<"list">>)
            /\ UNCHANGED <<collection, node_index, practice_queue, stack,
                           categories, nextId, due>>
       ELSE /\ collection' = insert_one(collection, nextId, q, a, c)
            /\ node_index' = node_index \cup {nextId}
            /\ practice_queue' = Append(practice_queue, nextId)
            /\ categories' = add_to_category(categories, c, nextId)
            /\ nextId' = nextId + 1
            /\ last' = Call("add_card", nextId, c, "node",
                            <<"list", "store", "index", "queue", "category">>)
            /\ due' = [i \in DOMAIN due \cup {nextId} |-> IF i = nextId THEN 1 ELSE due[i]]
            /\ UNCHANGED <<stack, failures>>

AddCard(q, a, c, fail) ==
    /\ nextId <= MaxCards
    /\ Len(practice_queue) < MaxQueue
    /\ IF fail
       THEN \* insert_one raises: nothing after line 49 runs
            /\ StoreRaises
            /\ last' = Call("add_card", 0, c, "raised", <<>>)
            /\ UNCHANGED <<collection, views, nextId, due>>
       ELSE /\ collection' = insert_one(collection, nextId, q, a, c)
            /\ linked_list' = ListAppend(linked_list, nextId)
            /\ node' = [i \in DOMAIN node \cup {nextId} |->
                          IF i = nextId
                          THEN [question |-> q, answer |-> a, category |-> c]
                          ELSE node[i]]
            /\ node_index' = node_index \cup {nextId}
            /\ practice_queue' = Append(practice_queue, nextId)
            /\ categories' = add_to_category(categories, c, nextId)
            /\ nextId' = nextId + 1
            /\ last' = Call("add_card", nextId, c, "node",
                            <<"store", "list", "index", "queue", "category">>)
            /\ due' = [i \in DOMAIN due \cup {nextId} |-> IF i = nextId THEN 1 ELSE due[i]]
            /\ UNCHANGED <<stack, failures>>

\* ---- edit_card ----------------------------------------------------------
\* linked_list.edit_card (line 64): in-place update of the list's node
EditListNode(id, q, a) ==
    IF ListFind(linked_list, id)
    THEN [node EXCEPT ![id].question = q, ![id].answer = a]
    ELSE node

\* variant: node.category is not assigned
EditIndexNodeStaleCategory(nd, id, q, a, c) ==
    IF id \in node_index
    THEN [nd EXCEPT ![id].question = q, ![id].answer = a]
    ELSE nd

\* variant: node.category = new_cat is done outside the "if new_cat" test
EditIndexNodeAlwaysCategory(nd, id, q, a, c) ==
    IF id \in node_index
    THEN [nd EXCEPT ![id] = [question |-> q, answer |-> a, category |-> c]]
    ELSE nd

\* lines 73-79: field writes through the card index
EditIndexNode(nd, id, q, a, c) ==
    IF id \in node_index
    THEN [nd EXCEPT ![id] = [question |-> q, answer |-> a,
                             category |-> IF Truthy(c) THEN c ELSE @.category]]
    ELSE nd

\* variant: the card is added to the new bucket but not taken out of the old
EditCategoriesNoRemove(id, c) ==
    IF id \in node_index /\ Truthy(c)
    THEN add_to_category(categories, c, id)
    ELSE categories

\* lines 77-80: bucket move when new_cat is given
EditCategories(id, c) ==
    IF id \in node_index /\ Truthy(c)
    THEN update_category(categories, node[id].category, c, id)
    ELSE categories

\* variant: True as soon as one of the two updates succeeded
EditResultEither(ok_list, ok_db) == Bool(ok_list \/ ok_db)

\* lines 82-86
EditResult(ok_list, ok_db) == Bool(ok_list /\ ok_db)

EditCard(id, q, a, c, fail) ==
    LET ok_list == ListFind(linked_list, id)
        newColl == update_one(collection, id, q, a, c)
        ok_db   == newColl # collection
    IN  IF fail
        THEN \* update_one raises after the list was already edited
             /\ StoreRaises
             /\ node' = EditListNode(id, q, a)
             /\ last' = [Call("edit_card", id, c, "raised", Events(<<Ev(ok_list, "list")>>))
                          EXCEPT !.was = CategoryOf(id)]
             /\ UNCHANGED <<collection, linked_list, node_index, practice_queue,
                            stack, categories, nextId, due>>
        ELSE /\ collection' = newColl
             /\ node' = EditIndexNode(EditListNode(id, q, a), id, q, a, c)
             /\ categories' = EditCategories(id, c)
             /\ last' = [Call("edit_card", id, c, EditResult(ok_list, ok_db),
                              Events(<<Ev(ok_list, "list"), Ev(ok_db, "store"),
                                       Ev(id \in node_index, "card"),
                                       Ev(id \in node_index /\ Truthy(c), "category")>>))
                          EXCEPT !.was = CategoryOf(id)]
             /\ UNCHANGED <<linked_list, node_index, practice_queue, stack, nextId,
                            failures, due>>

\* ---- delete_card --------------------------------------------------------
\* variant: the card index entry is not popped
DeleteIndexKept(id) == node_index

DeleteIndex(id) == node_index \ {id}

DeleteQueue(id) ==
    IF id \in node_index THEN RemoveFirst(practice_queue, id) ELSE practice_queue

DeleteStack(id) ==
    IF id \in node_index THEN RemoveFirst(stack, id) ELSE stack

\* variant: remove_from_category is not called
DeleteCategoriesKept(id) == categories

DeleteCategories(id) ==
    IF id \in node_index
    THEN remove_from_category(categories, node[id].category, id)
    ELSE categories

\* variant: True as soon as one of the two removals succeeded
DeleteResultEither(ok_list, ok_db) == Bool(ok_list \/ ok_db)

\* lines 101-105
DeleteResult(ok_list, ok_db) == Bool(ok_list /\ ok_db)

DeleteCard(id, fail) ==
    LET ok_list == ListFind(linked_list, id)
        ok_db   == id \in DOMAIN collection
        found   == id \in node_index
    IN  /\ linked_list' = ListRemove(linked_list, id)
        /\ IF fail
           THEN \* delete_one raises after the list entry was already removed
                /\ StoreRaises
                /\ last' = Call("delete_card", id, "", "raised", Events(<<Ev(ok_list, "list")>>))
                /\ node' = Collect(node, Referenced(linked_list', node_index, practice_queue,
                                                    stack, categories))
                /\ UNCHANGED <<collection, node_index, practice_queue,
                               stack, categories, nextId, due>>
           ELSE /\ collection' = delete_one(collection, id)
                /\ node_index' = DeleteIndex(id)
                /\ practice_queue' = DeleteQueue(id)
                /\ stack' = DeleteStack(id)
                /\ categories' = DeleteCategories(id)
                /\ last' = Call("delete_card", id, "", DeleteResult(ok_list, ok_db),
                                Events(<<Ev(ok_list, "list"), Ev(ok_db, "store"),
                                         Ev(found, "index"),
                                         Ev(found /\ id \in Range(practice_queue), "queue"),
                                         Ev(found /\ id \in Range(stack), "stack"),
                                         Ev(found, "category")>>))
                /\ node' = Collect(node, Referenced(linked_list', node_index', practice_queue',
                                                    stack', categories'))
                /\ due' = [i \in DOMAIN due \cap node_index' |-> due[i]]
                /\ UNCHANGED <<nextId, failures>>

\* ---- next_card ----------------------------------------------------------
\* variant: the card handed out is also recorded on the review stack
NextCardRecords ==
    /\ IF practice_queue # <<>>
       THEN /\ practice_queue' = Tail(practice_queue)
            /\ stack' = IF Len(stack) < MaxStack
                        THEN push(stack, Head(practice_queue)) ELSE stack
            /\ last' = Call("next_card", Head(practice_queue), "", "node", <<"queue">>)
            /\ due' = [i \in DOMAIN due |->
                         IF i = Head(practice_queue) THEN due[i] - 1 ELSE due[i]]
       ELSE /\ last' = Call("next_card", 0, "", "None", <<>>)
            /\ UNCHANGED <<practice_queue, stack, due>>
    /\ node' = Collect(node, Referenced(linked_list, node_index, practice_queue',
                                        stack', categories))
    /\ UNCHANGED <<collection, linked_list, node_index, categories, nextId, failures>>

NextCard ==
    /\ IF practice_queue # <<>>
       THEN /\ practice_queue' = Tail(practice_queue)
            /\ last' = Call("next_card", Head(practice_queue), "", "node", <<"queue">>)
            /\ due' = [i \in DOMAIN due |->
                         IF i = Head(practice_queue) THEN due[i] - 1 ELSE due[i]]
       ELSE /\ last' = Call("next_card", 0, "", "None", <<>>)
            /\ UNCHANGED <<practice_queue, due>>
    /\ node' = Collect(node, Referenced(linked_list, node_index, practice_queue',
                                        stack, categories))
    /\ UNCHANGED <<collection, linked_list, node_index, stack, categories, nextId, failures>>

\* ---- mark_reviewed ------------------------------------------------------
\* variant: appendleft instead of append
MarkQueueFront(id, correct) ==
    IF correct THEN practice_queue ELSE <<id>> \o practice_queue

MarkQueue(id, correct) ==
    IF correct THEN practice_queue ELSE Append(practice_queue, id)

\* variant: only a correct review is recorded on the review stack
MarkStackCorrectOnly(id, correct) ==
    IF correct THEN push(stack, id) ELSE stack

\* line 117: every review is pushed, whatever the correct flag
MarkStack(id, correct) == push(stack, id)

MarkReviewed(id, correct) ==
    /\ id \in node_index => Len(stack) < MaxStack
    /\ (id \in node_index /\ ~correct) => Len(practice_queue) < MaxQueue
    /\ IF id \notin node_index
       THEN /\ last' = Call("mark_reviewed", id, Bool(correct), "False", <<>>)
            /\ UNCHANGED <<practice_queue, stack, due>>
       ELSE /\ stack' = MarkStack(id, correct)
            /\ due' = [due EXCEPT ![id] = IF correct THEN @ ELSE @ + 1]
            /\ practice_queue' = MarkQueue(id, correct)
            /\ last' = Call("mark_reviewed", id, Bool(correct), "True",
                            Events(<<"stack", Ev(~correct, "queue")>>))
    /\ UNCHANGED <<collection, linked_list, node, node_index, categories, nextId, failures>>

\* ---- revisit_last -------------------------------------------------------
RevisitLast ==
    /\ IF stack # <<>>
       THEN /\ stack' = pop(stack)
            /\ last' = Call("revisit_last", stack[Len(stack)], "", "node", <<"stack">>)
       ELSE /\ last' = Call("revisit_last", 0, "", "None", <<>>)
            /\ UNCHANGED stack
    /\ node' = Collect(node, Referenced(linked_list, node_index, practice_queue,
                                        stack', categories))
    /\ UNCHANGED <<collection, linked_list, node_index, practice_queue,
                   categories, nextId, failures, due>>

Next ==
    \/ \E qa \in QA, c \in Categories, fail \in BOOLEAN :
          AddCard(qa[1], qa[2], c, fail)
    \/ \E id \in Ids, qa \in QA, c \in NewCats, fail \in BOOLEAN :
          EditCard(id, qa[1], qa[2], c, fail)
    \/ \E id \in Ids, fail \in BOOLEAN : DeleteCard(id, fail)
    \/ NextCard
    \/ \E id \in Ids, correct \in BOOLEAN : MarkReviewed(id, correct)
    \/ RevisitLast

Spec == Init /\ [][Next]_vars

TypeOK ==
    /\ DOMAIN collection \subseteq Ids
    /\ node_index \subseteq Ids
    /\ nextId \in 1..(MaxCards + 1)
    /\ Len(practice_queue) <= MaxQueue
    /\ Len(stack) <= MaxStack

\* ==== properties =========================================================
Created == 1..(nextId - 1)

\* ids whose document was inserted and has since been deleted from the store
Deleted(id) == id \in Created /\ id \notin DOMAIN collection

InSomeBucket(cm, id) == \E c \in DOMAIN cm : id \in Range(cm[c])

ViewEvents == {"list", "index", "card", "category", "queue", "stack"}

\* C1: an id is a key of the card index iff a document with that id is in
\* the persistent store.
C1_IndexIffStored == node_index = DOMAIN collection

C1_Witness ==
    /\ last.op = "delete_card" /\ last.ret = "True"
    /\ last.id \notin node_index
    /\ node_index # {}

\* C2: after a completed delete_card(id) the practice queue holds no entry
\* for the deleted card (every queued card is a key of the card index).
C2_QueueHoldsNoDeletedCard == \A id \in Range(practice_queue) : ~Deleted(id)

\* C3: after a completed delete_card(id) the review stack holds no entry for
\* the deleted card, so revisit_last never returns a deleted card.
C3_StackHoldsNoDeletedCard ==
    /\ \A id \in Range(stack) : ~Deleted(id)
    /\ (last.op = "revisit_last" /\ last.ret = "node") => ~Deleted(last.id)

\* C4: in add_card, edit_card and delete_card the store mutation comes
\* before the first mutation of any in-memory view.
C4_StoreMutatedFirst ==
    (/\ last.op \in {"add_card", "edit_card", "delete_card"}
     /\ Range(last.trace) \cap ViewEvents # {})
        => last.trace[1] = "store"

\* C5: when the store call of edit_card or delete_card raises or reports
\* nothing modified / nothing deleted, every in-memory view is unchanged.
C5_FailedStoreCallLeavesViews ==
    [][(/\ last'.op \in {"edit_card", "delete_card"}
        /\ "store" \notin Range(last'.trace))
          => UNCHANGED views]_vars

\* C6: when the store insert of add_card fails, no in-memory view changes.
C6_FailedAddLeavesViews ==
    [][(last'.op = "add_card" /\ last'.ret = "raised") => UNCHANGED views]_vars

C6_Witness ==
    /\ last.op = "add_card" /\ last.ret = "raised"
    /\ node_index # {}
    /\ nextId <= MaxCards

\* C7: once delete_card has removed a card, its id is absent from the card
\* index, from the ordered list and from every category bucket, and every
\* later mark_reviewed(id, correct) returns False and leaves the practice
\* queue and the review stack unchanged.
C7_DeletedCardIsGone ==
    /\ [](\A id \in Ids : Deleted(id) =>
            /\ id \notin node_index
            /\ ~ListFind(linked_list, id)
            /\ ~InSomeBucket(categories, id))
    /\ [][\A id \in Ids :
            (Deleted(id) /\ last'.op = "mark_reviewed" /\ last'.id = id)
               => (last'.ret = "False" /\ UNCHANGED <<practice_queue, stack>>)]_vars

C7_Witness ==
    /\ last.op = "mark_reviewed" /\ last.ret = "False"
    /\ Deleted(last.id)
    /\ node_index # {}

C10_FailedReviewRequeuesAtTail ==
    [][/\ (last'.op = "mark_reviewed" /\ last'.ret = "True" /\ last'.arg = "False")
            => practice_queue' = Append(practice_queue, last'.id)
       /\ (last'.op = "mark_reviewed" /\ last'.ret = "True" /\ last'.arg = "True")
            => practice_queue' = practice_queue
       /\ (last'.op = "next_card" /\ practice_queue # <<>>)
            => /\ last'.ret = "node"
               /\ last'.id = Head(practice_queue)
               /\ practice_queue' = Tail(practice_queue)]_vars

C10_Witness ==
    /\ last.op = "mark_reviewed" /\ last.ret = "True" /\ last.arg = "False"
    /\ Len(practice_queue) = 2
    /\ practice_queue[2] = last.id
    /\ practice_queue[1] # last.id
\* C11: every successful mark_reviewed, whatever its correct flag, pushes the
\* card on the review stack (review_stack_size grows by exactly one), and
\* revisit_last returns and removes the most recently pushed card, or returns
\* nothing on an empty stack: reviews A, B, C come back as C, B, A, empty.
C11_RevisitIsReverseOfReviews ==
    [][/\ (last'.op = "mark_reviewed" /\ last'.ret = "True")
            => /\ stack' = Append(stack, last'.id)
               /\ Len(stack') = review_stack_size + 1
       /\ (last'.op = "revisit_last" /\ stack # <<>>)
            => /\ last'.ret = "node"
               /\ last'.id = stack[Len(stack)]
               /\ stack' = SubSeq(stack, 1, Len(stack) - 1)
       /\ (last'.op = "revisit_last" /\ stack = <<>>)
            => (last'.ret = "None" /\ stack' = <<>>)]_vars

C11_Witness ==
    /\ last.op = "revisit_last" /\ last.ret = "node"
    /\ Len(stack) = 1
    /\ stack[1] # last.id
    /\ node_index = {1, 2}
RECURSIVE SumOver(_, _)
SumOver(f, S) ==
    IF S = {} THEN 0
    ELSE LET x == CHOOSE y \in S : TRUE IN f[x] + SumOver(f, S \ {x})

\* C12: queue_size() equals the sum, over the cards of the card index, of
\* 1 + failed reviews - times next_card returned the card; cards that are no
\* longer live contribute nothing.
C12_QueueSizeCountsLiveCards ==
    /\ DOMAIN due = node_index
    /\ queue_size = SumOver(due, node_index)
StoreAndViews == <<collection, views>>

\* C13: an edit_card call that returns gives True exactly when the list
\* update succeeded and the store reported a modification; on an id that is
\* in neither the store nor any view it returns False and changes nothing.
C13_EditResult ==
    [][\A id \in Ids :
        (last'.op = "edit_card" /\ last'.id = id /\ last'.ret # "raised")
          => /\ last'.ret \in {"True", "False"}
             /\ last'.ret = "True"
                  <=> (ListFind(linked_list, id) /\ collection' # collection)
             /\ (/\ id \notin DOMAIN collection
                 /\ id \notin Referenced(linked_list, node_index, practice_queue,
                                         stack, categories))
                  => (last'.ret = "False" /\ UNCHANGED StoreAndViews)]_vars

C13_Witness ==
    /\ last.op = "edit_card" /\ last.ret = "False"
    /\ last.id \in node_index
    /\ ListFind(linked_list, last.id)
    /\ last.trace = <<"list", "card">>
\* C14: a delete_card call that returns gives True only if the list removal
\* and the store deletion both succeeded; on an id that is not live (never
\* added, or already deleted) it returns False and changes neither the store
\* nor any view, so a second delete_card of the same id is a no-op.
C14_DeleteResult ==
    [][\A id \in Ids :
        (last'.op = "delete_card" /\ last'.id = id /\ last'.ret # "raised")
          => /\ last'.ret \in {"True", "False"}
             /\ last'.ret = "True"
                  => /\ ListFind(linked_list, id) /\ ~ListFind(linked_list', id)
                     /\ id \in DOMAIN collection /\ id \notin DOMAIN collection'
             /\ id \notin DOMAIN collection
                  => (last'.ret = "False" /\ UNCHANGED StoreAndViews)]_vars

C14_Witness ==
    /\ last.op = "delete_card" /\ last.ret = "False"
    /\ Deleted(last.id)
    /\ node_index # {}
ListMatchesStore ==
    /\ Range(linked_list) = DOMAIN collection
    /\ \A id \in Ids : Count(linked_list, id) <= 1

\* C15: after every completed operation the ordered card list holds exactly
\* one entry for every live card and no entry for any other card.
C15_ListHoldsLiveCards == last.ret # "raised" => ListMatchesStore
ExpectedBucket(id) ==
    IF collection[id].category = NoField THEN Uncategorized
    ELSE collection[id].category

\* C16: construction over any set of stored documents leaves the store as it
\* was and puts every document exactly once in the ordered list, the card
\* index, the practice queue and the bucket named by its category field
\* ("Uncategorized" when the field is absent), and nowhere else; the review
\* stack is empty.
C16_ConstructionLoadsEveryDocumentOnce ==
    /\ [](last.op = "init" =>
            /\ node_index = DOMAIN collection
            /\ Range(linked_list) = DOMAIN collection
            /\ Range(practice_queue) = DOMAIN collection
            /\ \A id \in DOMAIN collection :
                  /\ Count(linked_list, id) = 1
                  /\ Count(practice_queue, id) = 1
                  /\ Count(get_by_category(ExpectedBucket(id)), id) = 1
                  /\ \A c \in list_categories \ {ExpectedBucket(id)} :
                        id \notin Range(get_by_category(c))
            /\ stack = <<>>)
    /\ [][last'.op = "init" => collection' = collection]_vars

C16_Witness ==
    /\ last.op = "init"
    /\ Cardinality(DOMAIN collection) = 3
    /\ \E id \in DOMAIN collection : collection[id].category = NoField
    /\ \E id \in DOMAIN collection : collection[id].category = "Math"
    /\ linked_list[1] # 1
\* no card field is written: every node still referenced keeps its fields,
\* and every card of the index is still there
FieldsKept ==
    /\ DOMAIN node' \subseteq DOMAIN node
    /\ \A i \in DOMAIN node' : node'[i] = node[i]
    /\ node_index \subseteq DOMAIN node'

\* C17: next_card, mark_reviewed and revisit_last never write the store, the
\* ordered list, the card index, the category index or a card field;
\* next_card changes only the practice queue (removing its head) and returns
\* nothing, changing nothing, on an empty queue; mark_reviewed changes only
\* the review stack and the practice queue; revisit_last changes only the
\* review stack and returns nothing on an empty stack.
C17_ReviewCallsFrame ==
    [][/\ last'.op \in {"next_card", "mark_reviewed", "revisit_last"}
            => /\ UNCHANGED <<collection, linked_list, node_index, categories>>
               /\ FieldsKept
       /\ last'.op = "next_card"
            => /\ stack' = stack
               /\ IF practice_queue = <<>>
                  THEN last'.ret = "None" /\ practice_queue' = practice_queue
                  ELSE practice_queue' = Tail(practice_queue)
       /\ last'.op = "revisit_last"
            => /\ practice_queue' = practice_queue
               /\ stack = <<>> => (last'.ret = "None" /\ stack' = stack)]_vars

C17_Witness ==
    /\ last.op = "next_card" /\ last.ret = "node"
    /\ stack # <<>>
    /\ practice_queue # <<>>
    /\ Cardinality(node_index) = 2
\* C18: every public operation reports failure through its return value and
\* never raises, also when the store call fails.
C18_NoCallRaises == last.ret # "raised"

StoredCategory(id) ==
    IF collection[id].category = NoField THEN Uncategorized
    ELSE collection[id].category

NodeMatchesDocument(id) ==
    /\ id \in DOMAIN node /\ id \in DOMAIN collection
    /\ node[id].question = collection[id].question
    /\ node[id].answer = collection[id].answer
    /\ node[id].category = StoredCategory(id)

\* C19: as long as no store call has failed, every live card's in-memory
\* question, answer and category equal those of its store document, the
\* category being "Uncategorized" when the document has no category field.
C19_CardsMatchDocuments ==
    failures = 0 => \A id \in node_index : NodeMatchesDocument(id)

C19_Witness ==
    /\ failures = 0
    /\ last.op = "edit_card" /\ last.ret = "False" /\ last.arg = ""
    /\ last.id \in node_index
    /\ collection[last.id].category = NoField
    /\ Cardinality(node_index) = 2

\* C20: edit_card(id, q, a) without new_cat on a card of the index, with q
\* and a equal to the card's current question and answer, returns False and
\* leaves the store and every in-memory view unchanged.
C20_SameValueEditReturnsFalse ==
    [][\A id \in Ids :
        (/\ last'.op = "edit_card" /\ last'.id = id /\ last'.arg = NoneCat
         /\ last'.ret # "raised"
         /\ id \in node_index
         /\ node'[id].question = node[id].question
         /\ node'[id].answer = node[id].answer)
          => (last'.ret = "False" /\ UNCHANGED StoreAndViews)]_vars
====
